---- MODULE Spec2Model ----
(***************************************************************************)
(* grep_wrapper (src/src/main.rs): a filter that reads lines from standard *)
(* input, recognises grep-like lines with line_regex, rebuilds the file    *)
(* path, optionally filters on existence and highlights, and writes the    *)
(* result to standard output.                                              *)
(*                                                                         *)
(* A string is a sequence of one-character strings.  An Option is a        *)
(* sequence of length 0 (None) or 1 (Some).  Positions are 1-based; a span *)
(* <<from, to>> covers positions from .. to-1.                             *)
(***************************************************************************)
EXTENDS Integers, Sequences, FiniteSets, TLC

VARIABLES
  pc,              \* "start", "loop", "done" or "panicked"
  args,            \* the command line: prefix, highlight, check_exists flag
  env,             \* the environment: result of current_dir()
  files,           \* paths (relative to the working directory) File::open can open
  failAt,          \* ordinals of the write calls on stdout that the OS fails
  stdin,           \* the items stdin().lock().lines() has still to yield
  extra_prefix,    \* main's locals, set once at startup
  check_exists,
  highlight_regex,
  cwd,
  nwrite,          \* number of write calls made on stdout so far
  stdout,          \* what was written: chunks [ln, role, text]
  stderr,          \* indices of the lines reported by eprintln!
  log              \* per loop iteration: the locals of that iteration

vars == <<pc, args, env, files, failAt, stdin, extra_prefix, check_exists,
          highlight_regex, cwd, nwrite, stdout, stderr, log>>

-----------------------------------------------------------------------------
(* Option, io::Result *)

None == <<>>
Some(v) == <<v>>
IsSome(o) == Len(o) = 1
Get(o) == o[1]
UnwrapOr(o, d) == IF IsSome(o) THEN o[1] ELSE d

Ok(v) == [ok |-> TRUE, v |-> v]
Err == [ok |-> FALSE, v |-> <<>>]

-----------------------------------------------------------------------------
(* The regex crate: patterns as syntax trees, leftmost-first matching. *)

Digits == {"0", "1", "2", "3", "4", "5", "6", "7", "8", "9"}
Spaces == {" ", "\t"}

Cls(S) == [t |-> "cls", neg |-> FALSE, set |-> S]
NotCls(S) == [t |-> "cls", neg |-> TRUE, set |-> S]
Lit(c) == Cls({c})
Dot == NotCls({"\n"})
Cat(parts) == [t |-> "cat", parts |-> parts]
Opt(r) == [t |-> "opt", r |-> r]
Star(c) == [t |-> "rep", min |-> 0, neg |-> c.neg, set |-> c.set]
Plus(c) == [t |-> "rep", min |-> 1, neg |-> c.neg, set |-> c.set]
Grp(n, r) == [t |-> "grp", n |-> n, r |-> r]

NumGroups == 5
NoCaps == [n \in 1..NumGroups |-> None]

InClass(r, c) == (c \in r.set) # r.neg

\* The number of characters of s from position i on that are in the class of r.
RunLen(r, s, i) ==
  LET out == {j \in i..Len(s) : ~InClass(r, s[j])}
  IN IF out = {} THEN Len(s) + 1 - i
     ELSE (CHOOSE j \in out : \A h \in out : j <= h) - i

\* Match the sequence of patterns rs against s from position i, trying the
\* alternatives in the priority order of a backtracking engine: an optional
\* part is tried before its absence, a repetition takes the most characters it
\* can and gives them back one at a time (Back).  Some([pos, caps]) for the
\* first success, else None.
RECURSIVE Run(_, _, _, _), Back(_, _, _, _, _, _)
Run(rs, s, i, caps) ==
  IF rs = <<>> THEN Some([pos |-> i, caps |-> caps])
  ELSE LET r == Head(rs)
           k == Tail(rs)
       IN CASE r.t = "cls" ->
                 IF i <= Len(s) /\ InClass(r, s[i])
                 THEN Run(k, s, i + 1, caps) ELSE None
            [] r.t = "cat" -> Run(r.parts \o k, s, i, caps)
            [] r.t = "opt" ->
                 LET x == Run(<<r.r>> \o k, s, i, caps)
                 IN IF x # None THEN x ELSE Run(k, s, i, caps)
            [] r.t = "rep" -> Back(k, s, i, caps, RunLen(r, s, i), r.min)
            [] r.t = "grp" ->
                 Run(<<r.r, [t |-> "end", n |-> r.n, from |-> i]>> \o k, s, i, caps)
            [] r.t = "end" ->
                 Run(k, s, i, [caps EXCEPT ![r.n] = Some(<<r.from, i>>)])

Back(k, s, i, caps, n, min) ==
  IF n < min THEN None
  ELSE LET x == Run(k, s, i + n, caps)
       IN IF x # None THEN x ELSE Back(k, s, i, caps, n - 1, min)

\* Regex::find_at / captures: the leftmost start from which the pattern matches.
RECURSIVE FindAt(_, _, _)
FindAt(re, s, start) ==
  IF start > Len(s) + 1 THEN None
  ELSE LET x == Run(<<re>>, s, start, NoCaps)
       IN IF x # None
          THEN Some([from |-> start, to |-> x[1].pos, caps |-> x[1].caps])
          ELSE FindAt(re, s, start + 1)

\* Matches::next, iterated: the non-overlapping matches from last_end on; an
\* empty match moves the search one character on and is dropped when it sits
\* at the end of the previous match.
RECURSIVE MatchesFrom(_, _, _, _)
MatchesFrom(re, s, last_end, last_match) ==
  IF last_end > Len(s) + 1 THEN <<>>
  ELSE LET f == FindAt(re, s, last_end)
       IN IF f = None THEN <<>>
          ELSE LET a == f[1].from
                   e == f[1].to
               IN IF a = e
                  THEN IF Some(e) = last_match
                       THEN MatchesFrom(re, s, e + 1, last_match)
                       ELSE <<<<a, e>>>> \o MatchesFrom(re, s, e + 1, Some(e))
                  ELSE <<<<a, e>>>> \o MatchesFrom(re, s, e, Some(e))

captures_iter(re, s) == MatchesFrom(re, s, 1, None)

\* RegexBuilder::case_insensitive(true): a class also takes the other case.
Upper == [c \in {"a", "b"} |-> IF c = "a" THEN "A" ELSE "B"]
FoldSet(S) ==
  S \cup {Upper[c] : c \in S \cap DOMAIN Upper}
    \cup {c \in DOMAIN Upper : Upper[c] \in S}

RECURSIVE CaseInsensitive(_)
CaseInsensitive(r) ==
  CASE r.t \in {"cls", "rep"} -> [r EXCEPT !.set = FoldSet(r.set)]
    [] r.t = "cat" ->
         [r EXCEPT !.parts = [j \in 1..Len(r.parts) |-> CaseInsensitive(r.parts[j])]]
    [] OTHER -> [r EXCEPT !.r = CaseInsensitive(r.r)]

\* line_regex with the row made mandatory.
line_regex_row_required ==
  Cat(<< Opt(Cat(<< Plus(NotCls({":", "/"})), Opt(Lit("/")),
                    Grp(1, Plus(NotCls({":"}))), Lit(":") >>)),
         Grp(2, Plus(NotCls({":"}))),
         Cat(<< Lit(":"), Grp(3, Plus(Cls(Digits))) >>),
         Opt(Cat(<< Lit(":"), Grp(4, Plus(Cls(Digits))) >>)),
         Lit(":"), Star(Cls(Spaces)), Grp(5, Star(Dot)) >>)

\* (?:[^:/]+/?([^:]+):)?([^:]+)(?::(\d+))?(?::(\d+))?:\s*(.*)
line_regex ==
  Cat(<< Opt(Cat(<< Plus(NotCls({":", "/"})), Opt(Lit("/")),
                    Grp(1, Plus(NotCls({":"}))), Lit(":") >>)),
         Grp(2, Plus(NotCls({":"}))),
         Opt(Cat(<< Lit(":"), Grp(3, Plus(Cls(Digits))) >>)),
         Opt(Cat(<< Lit(":"), Grp(4, Plus(Cls(Digits))) >>)),
         Lit(":"), Star(Cls(Spaces)), Grp(5, Star(Dot)) >>)

\* Captures::get(n).map(|s| s.as_str())
Group(m, s, n) ==
  IF IsSome(m.caps[n])
  THEN Some(SubSeq(s, m.caps[n][1][1], m.caps[n][1][2] - 1))
  ELSE None

-----------------------------------------------------------------------------
(* std::path and pathdiff *)

RECURSIVE Split(_, _)
Split(p, acc) ==
  IF p = <<>> THEN <<acc>>
  ELSE IF Head(p) = "/" THEN <<acc>> \o Split(Tail(p), <<>>)
       ELSE Split(Tail(p), Append(acc, Head(p)))

is_absolute(p) == p # <<>> /\ p[1] = "/"

RootDir == <<"/">>
CurDir == <<".">>
ParentDir == <<".", ".">>

\* Path::components: the root, then the names between separators; empty names
\* and "." are dropped, except a leading "." of a relative path.
components(p) ==
  LET raw == IF p = <<>> THEN <<>> ELSE Split(p, <<>>)
      keep(j) == /\ raw[j] # <<>>
                 /\ (raw[j] = CurDir => (j = 1 /\ ~is_absolute(p)))
      idx == {j \in 1..Len(raw) : keep(j)}
      RECURSIVE Pick(_)
      Pick(j) == IF j > Len(raw) THEN <<>>
                 ELSE IF j \in idx THEN <<raw[j]>> \o Pick(j + 1) ELSE Pick(j + 1)
  IN (IF is_absolute(p) THEN <<RootDir>> ELSE <<>>) \o Pick(1)

\* comps.iter().map(|c| c.as_os_str()).collect::<PathBuf>()
RECURSIVE Collect(_)
Collect(cs) ==
  IF cs = <<>> THEN <<>>
  ELSE IF Len(cs) = 1 THEN cs[1]
       ELSE IF cs[1] = RootDir THEN RootDir \o Collect(Tail(cs))
            ELSE cs[1] \o <<"/">> \o Collect(Tail(cs))

Repeat(x, n) == [j \in 1..n |-> x]

RECURSIVE DiffLoop(_, _, _)
DiffLoop(ita, itb, comps) ==
  CASE ita = <<>> /\ itb = <<>> -> Some(comps)
    [] ita # <<>> /\ itb = <<>> -> Some(comps \o ita)
    [] ita = <<>> /\ itb # <<>> -> DiffLoop(ita, Tail(itb), Append(comps, ParentDir))
    [] OTHER ->
         LET a == Head(ita)
             b == Head(itb)
         IN IF comps = <<>> /\ a = b THEN DiffLoop(Tail(ita), Tail(itb), comps)
            ELSE IF b = CurDir THEN DiffLoop(Tail(ita), Tail(itb), Append(comps, a))
            ELSE IF b = ParentDir THEN None
            ELSE Some(comps \o Repeat(ParentDir, Len(itb)) \o ita)

diff_paths(path, base) ==
  IF is_absolute(path) # is_absolute(base)
  THEN IF is_absolute(path) THEN Some(path) ELSE None
  ELSE LET d == DiffLoop(components(path), components(base), <<>>)
       IN IF d = None THEN None ELSE Some(Collect(d[1]))

-----------------------------------------------------------------------------
(* clap: the matches of the command line *)

\* App::get_matches: an option holds its value, a flag holds no value at all.
get_matches(a) ==
  [prefix |-> [present |-> IsSome(a.prefix), vals |-> a.prefix],
   highlight |-> [present |-> IsSome(a.highlight), vals |-> a.highlight],
   check_exists |-> [present |-> a.check_exists, vals |-> <<>>]]

\* ArgMatches::value_of: the first value of the argument, if it has one.
value_of(matches, name) ==
  IF matches[name].present /\ matches[name].vals # <<>>
  THEN Some(matches[name].vals[1])
  ELSE None

\* RegexBuilder::new(h).case_insensitive(true).build()
build(h) == IF h.valid THEN Ok(CaseInsensitive(h.ast)) ELSE Err

\* unwrap replaced by unwrap_or_default: no panic.
unwrap_or_default(o) == [panic |-> FALSE, v |-> IF o = None THEN <<>> ELSE o[1]]

\* Option::unwrap / Result::unwrap: the value, or a panic.
unwrap(o) == [panic |-> o = None, v |-> IF o = None THEN <<>> ELSE o[1]]

-----------------------------------------------------------------------------
(* GrepLike::write *)

GrepLike(prefix, filepath, row, column, contents) ==
  [prefix |-> prefix, filepath |-> filepath, row |-> row, column |-> column,
   contents |-> contents]

Chunk(role, text) == [role |-> role, text |-> text]

\* ConcatPath with the two prefixes in the wrong order.
ConcatPathPrefixFirst(prefix, extra, filepath) ==
  CASE IsSome(prefix) /\ IsSome(extra) -> prefix[1] \o extra[1] \o <<"/">> \o filepath
    [] IsSome(prefix) /\ ~IsSome(extra) -> prefix[1] \o <<"/">> \o filepath
    [] ~IsSome(prefix) /\ IsSome(extra) -> extra[1] \o filepath
    [] OTHER -> filepath

\* lines 27-33: the concatenated path
ConcatPath(prefix, extra, filepath) ==
  CASE IsSome(prefix) /\ IsSome(extra) -> extra[1] \o prefix[1] \o <<"/">> \o filepath
    [] IsSome(prefix) /\ ~IsSome(extra) -> prefix[1] \o <<"/">> \o filepath
    [] ~IsSome(prefix) /\ IsSome(extra) -> extra[1] \o filepath
    [] OTHER -> filepath

\* HeaderWrite with row and column printed as numbers: leading zeros lost.
RECURSIVE StripZeros(_)
StripZeros(d) == IF Len(d) > 1 /\ Head(d) = "0" THEN StripZeros(Tail(d)) ELSE d

HeaderWriteNumeric(rel, row, column) ==
  << Chunk("yellow", rel), Chunk("plain", <<":">>),
     Chunk("blue", StripZeros(UnwrapOr(row, <<"0">>))), Chunk("plain", <<":">>),
     Chunk("green", StripZeros(UnwrapOr(column, <<"0">>))), Chunk("plain", <<":", " ">>) >>

\* lines 41-47: write!(w, "{}:{}:{}: ", path.yellow(), row.blue(), column.green())
HeaderWrite(rel, row, column) ==
  << Chunk("yellow", rel), Chunk("plain", <<":">>),
     Chunk("blue", UnwrapOr(row, <<"0">>)), Chunk("plain", <<":">>),
     Chunk("green", UnwrapOr(column, <<"0">>)), Chunk("plain", <<":", " ">>) >>

\* HighlightWrites without `offset = g.end()`: the offset never moves.
RECURSIVE HighlightWritesStaleOffset(_, _, _)
HighlightWritesStaleOffset(contents, ms, offset) ==
  IF ms = <<>>
  THEN << << Chunk("plain", SubSeq(contents, offset, Len(contents))),
             Chunk("plain", <<"\n">>) >> >>
  ELSE LET g == Head(ms)
       IN << << Chunk("plain", SubSeq(contents, offset, g[1] - 1)) >>,
             << Chunk("red", SubSeq(contents, g[1], g[2] - 1)) >> >>
          \o HighlightWritesStaleOffset(contents, Tail(ms), offset)

\* lines 50-57: one write per unmatched span and per match, then the tail
RECURSIVE HighlightWrites(_, _, _)
HighlightWrites(contents, ms, offset) ==
  IF ms = <<>>
  THEN << << Chunk("plain", SubSeq(contents, offset, Len(contents))),
             Chunk("plain", <<"\n">>) >> >>
  ELSE LET g == Head(ms)
       IN << << Chunk("plain", SubSeq(contents, offset, g[1] - 1)) >>,
             << Chunk("red", SubSeq(contents, g[1], g[2] - 1)) >> >>
          \o HighlightWrites(contents, Tail(ms), g[2])

\* lines 48-60
ContentsWrites(contents, highlight) ==
  IF IsSome(highlight)
  THEN HighlightWrites(contents, captures_iter(highlight[1], contents), 1)
  ELSE << << Chunk("plain", contents), Chunk("plain", <<"\n">>) >> >>

\* Perform without the `?`: a failed call is skipped and the next ones are made.
RECURSIVE PerformIgnoringErrors(_, _, _)
PerformIgnoringErrors(ws, nw, fails) ==
  IF ws = <<>> THEN [out |-> <<>>, ok |-> TRUE, nwrite |-> nw]
  ELSE LET r == PerformIgnoringErrors(Tail(ws), nw + 1, fails)
       IN IF (nw + 1) \in fails
          THEN [out |-> r.out, ok |-> FALSE, nwrite |-> r.nwrite]
          ELSE [out |-> Head(ws) \o r.out, ok |-> r.ok, nwrite |-> r.nwrite]

\* The write!/writeln! calls in order, each followed by `?`: the first call the
\* OS fails ends the function with Err, the calls after it are not made.
RECURSIVE Perform(_, _, _)
Perform(ws, nw, fails) ==
  IF ws = <<>> THEN [out |-> <<>>, ok |-> TRUE, nwrite |-> nw]
  ELSE IF (nw + 1) \in fails THEN [out |-> <<>>, ok |-> FALSE, nwrite |-> nw + 1]
       ELSE LET r == Perform(Tail(ws), nw + 1, fails)
            IN [out |-> Head(ws) \o r.out, ok |-> r.ok, nwrite |-> r.nwrite]

\* File::open(&rel_filepath).is_err()
open_is_err(rel, fs) == rel \notin fs

write(s, extra, highlight, current_dir, chk, fs, nw, fails) ==
  LET filepath == ConcatPath(s.prefix, extra, s.filepath)
      d == unwrap(diff_paths(filepath, current_dir))
      rel_filepath == d.v
      p == Perform(<<HeaderWrite(rel_filepath, s.row, s.column)>>
                     \o ContentsWrites(s.contents, highlight), nw, fails)
  IN IF d.panic
     THEN [filepath |-> filepath, rel |-> None, suppressed |-> FALSE,
           res |-> "panic", out |-> <<>>, nwrite |-> nw]
     ELSE IF chk /\ open_is_err(rel_filepath, fs)
          THEN [filepath |-> filepath, rel |-> Some(rel_filepath), suppressed |-> TRUE,
                res |-> "Ok", out |-> <<>>, nwrite |-> nw]
          ELSE [filepath |-> filepath, rel |-> Some(rel_filepath), suppressed |-> FALSE,
                res |-> IF p.ok THEN "Ok" ELSE "Err", out |-> p.out,
                nwrite |-> p.nwrite]

-----------------------------------------------------------------------------
(* main *)

Tag(n, chunks) == [j \in 1..Len(chunks) |->
                     [ln |-> n, role |-> chunks[j].role, text |-> chunks[j].text]]

NoRecord == GrepLike(None, <<>>, None, None, <<>>)

Entry(item, kind, m, s, filepath, rel, suppressed, res) ==
  [item |-> item, kind |-> kind, m |-> m, s |-> s, filepath |-> filepath,
   rel |-> rel, suppressed |-> suppressed, res |-> res]

\* lines 93-105
Startup ==
  /\ pc = "start"
  /\ LET matches == get_matches(args)
         h == value_of(matches, "highlight")
         re == IF IsSome(h) THEN build(h[1]) ELSE Err
         dir == unwrap(env.cwd)
     IN /\ extra_prefix' = value_of(matches, "prefix")
        /\ check_exists' = IsSome(value_of(matches, "check_exists"))
        /\ IF IsSome(h) /\ ~re.ok
           THEN pc' = "panicked" /\ UNCHANGED <<highlight_regex, cwd>>
           ELSE /\ highlight_regex' = (IF IsSome(h) THEN Some(re.v) ELSE None)
                /\ IF dir.panic
                   THEN pc' = "panicked" /\ UNCHANGED cwd
                   ELSE pc' = "loop" /\ cwd' = dir.v
  /\ UNCHANGED <<args, env, files, failAt, stdin, nwrite, stdout, stderr, log>>

\* lines 130-132: the line could not be read
ReadErr ==
  /\ pc = "loop" /\ stdin # <<>> /\ ~Head(stdin).ok
  /\ stdin' = Tail(stdin)
  /\ stderr' = Append(stderr, Len(log) + 1)
  /\ log' = Append(log, Entry(Head(stdin), "err", None, NoRecord, <<>>, None, FALSE, "none"))
  /\ UNCHANGED <<pc, args, env, files, failAt, extra_prefix, check_exists,
                 highlight_regex, cwd, nwrite, stdout>>

\* lines 110-125: the line matches line_regex
Recognised ==
  /\ pc = "loop" /\ stdin # <<>> /\ Head(stdin).ok
  /\ \E captures \in {FindAt(line_regex, Head(stdin).v, 1)} :
       /\ captures # None
       /\ \E s \in {GrepLike(Group(captures[1], Head(stdin).v, 1),
                             Get(Group(captures[1], Head(stdin).v, 2)),
                             Group(captures[1], Head(stdin).v, 3),
                             Group(captures[1], Head(stdin).v, 4),
                             Get(Group(captures[1], Head(stdin).v, 5)))} :
            \E r \in {write(s, extra_prefix, highlight_regex, cwd, check_exists,
                            files, nwrite, failAt)} :
              /\ pc' = (IF r.res = "panic" THEN "panicked" ELSE "loop")
              /\ stdout' = stdout \o Tag(Len(log) + 1, r.out)
              /\ nwrite' = r.nwrite
              /\ log' = Append(log, Entry(Head(stdin), "recognised", captures, s,
                                          r.filepath, r.rel, r.suppressed, r.res))
  /\ stdin' = Tail(stdin)
  /\ UNCHANGED <<args, env, files, failAt, extra_prefix, check_exists,
                 highlight_regex, cwd, stderr>>

\* lines 126-128: println!("{}", line), which panics when the write fails
Unrecognised ==
  /\ pc = "loop" /\ stdin # <<>> /\ Head(stdin).ok
  /\ FindAt(line_regex, Head(stdin).v, 1) = None
  /\ \E p \in {Perform(<< << Chunk("plain", Head(stdin).v), Chunk("plain", <<"\n">>) >> >>,
                       nwrite, failAt)} :
       /\ pc' = (IF p.ok THEN "loop" ELSE "panicked")
       /\ stdout' = stdout \o Tag(Len(log) + 1, p.out)
       /\ nwrite' = p.nwrite
       /\ log' = Append(log, Entry(Head(stdin), "passthrough", None, NoRecord, <<>>,
                                   None, FALSE, IF p.ok THEN "Ok" ELSE "panic"))
  /\ stdin' = Tail(stdin)
  /\ UNCHANGED <<args, env, files, failAt, extra_prefix, check_exists,
                 highlight_regex, cwd, stderr>>

\* line 107: lines() is exhausted, main returns
Finish ==
  /\ pc = "loop" /\ stdin = <<>>
  /\ pc' = "done"
  /\ UNCHANGED <<args, env, files, failAt, stdin, extra_prefix, check_exists,
                 highlight_regex, cwd, nwrite, stdout, stderr, log>>

Next == Startup \/ ReadErr \/ Recognised \/ Unrecognised \/ Finish

-----------------------------------------------------------------------------
(* Inputs *)

MaxLen == 5      \* longest line of the exhaustive line set
MaxLines == 2    \* longest input of the run specification
MaxFail == 2     \* write calls on stdout that may fail
MaxMsg == 4      \* longest message body of the highlight specification

Alphabet == {"a", "/", ":", "0", " "}
MsgAlphabet == {"a", "A", "b"}

RECURSIVE StringsOver(_, _)
StringsOver(A, n) ==
  IF n = 0 THEN {<<>>}
  ELSE LET P == StringsOver(A, n - 1)
       IN P \cup {Append(p, c) : p \in {q \in P : Len(q) = n - 1}, c \in A}

RECURSIVE SeqsUpTo(_, _)
SeqsUpTo(S, n) ==
  IF n = 0 THEN {<<>>}
  ELSE LET P == SeqsUpTo(S, n - 1)
       IN P \cup {Append(p, x) : p \in {q \in P : Len(q) = n - 1}, x \in S}

\* src/lib.rs:42:7: unused variable
LineLib == <<"s", "r", "c", "/", "l", "i", "b", ".", "r", "s", ":", "4", "2", ":", "7", ":", " ", "u", "n", "u", "s", "e", "d", " ", "v", "a", "r", "i", "a", "b", "l", "e">>
\* note: see above
LineNote == <<"n", "o", "t", "e", ":", " ", "s", "e", "e", " ", "a", "b", "o", "v", "e">>
\* hello
LineHello == <<"h", "e", "l", "l", "o">>
\* /w/f:1:2: an A
LineWF == <<"/", "w", "/", "f", ":", "1", ":", "2", ":", " ", "a", "n", " ", "A">>
\* /x/g:07: b
LineXG == <<"/", "x", "/", "g", ":", "0", "7", ":", " ", "b">>
\* a:0:0: a
LineShort == <<"a", ":", "0", ":", "0", ":", " ", "a">>
\* x/sub:a.txt: m
LineSub == <<"x", "/", "s", "u", "b", ":", "a", ".", "t", "x", "t", ":", " ", "m">>

\* -p /w/
PrefixW == <<"/", "w", "/">>
\* -p root/
PrefixRoot == <<"r", "o", "o", "t", "/">>
\* -p /
PrefixSlash == <<"/">>
\* the working directory /w
DirW == <<"/", "w">>
\* the file /w/f
FileF == <<"f">>
\* the location /f:
LocF == <<"/", "f", ":">>

\* -h a
HlA == [valid |-> TRUE, ast |-> Lit("a")]
\* -h a*
HlAStar == [valid |-> TRUE, ast |-> Star(Lit("a"))]
\* -h ''
HlEmpty == [valid |-> TRUE, ast |-> Cat(<<>>)]
\* -h ab
HlAB == [valid |-> TRUE, ast |-> Cat(<<Lit("a"), Lit("b")>>)]
\* a pattern the regex parser rejects, such as -h (
HlBad == [valid |-> FALSE, ast |-> Cat(<<>>)]

Args(prefixes, highlights, flags) ==
  [prefix : prefixes, highlight : highlights, check_exists : flags]

Fresh ==
  /\ pc = "start"
  /\ extra_prefix = None /\ check_exists = FALSE /\ highlight_regex = None
  /\ cwd = <<>>
  /\ nwrite = 0 /\ stdout = <<>> /\ stderr = <<>> /\ log = <<>>

\* Runs over short inputs of representative lines, with failing writes.
Init ==
  /\ Fresh
  /\ args \in Args({None, Some(PrefixW)}, {None, Some(HlAStar), Some(HlBad)}, BOOLEAN)
  /\ env \in {[cwd |-> Some(DirW)], [cwd |-> None]}
  /\ files = {FileF}
  /\ failAt \in SUBSET (1..MaxFail)
  /\ stdin \in SeqsUpTo({Ok(LineLib), Ok(LineHello), Ok(LineWF), Ok(LineXG), Err},
                        MaxLines)

\* One line: every line over Alphabet up to MaxLen, and the lines of the
\* documentation's examples.
InitParse ==
  /\ Fresh
  /\ args \in Args({None, Some(PrefixSlash), Some(PrefixRoot)}, {None}, BOOLEAN)
  /\ env = [cwd |-> Some(DirW)]
  /\ files = {FileF}
  /\ failAt = {}
  /\ stdin \in {<<Ok(l)>> : l \in StringsOver(Alphabet, MaxLen)
                                    \cup {LineLib, LineNote, LineWF, LineXG, LineSub,
                                          LineShort}}
                 \cup {<<Err>>}

\* One line: every message body over MsgAlphabet up to MaxMsg, alone and
\* behind a location, under each highlight pattern.
InitHighlight ==
  /\ Fresh
  /\ args \in Args({None}, {None, Some(HlA), Some(HlAStar), Some(HlEmpty), Some(HlAB)},
                   {FALSE})
  /\ env = [cwd |-> Some(DirW)]
  /\ files = {FileF}
  /\ failAt = {}
  /\ stdin \in {<<Ok(h \o c)>> : h \in {<<>>, LocF}, c \in StringsOver(MsgAlphabet, MaxMsg)}
                 \cup {<<Err>>}

Spec == Init /\ [][Next]_vars
SpecParse == InitParse /\ [][Next]_vars
SpecHighlight == InitHighlight /\ [][Next]_vars

-----------------------------------------------------------------------------
(* Reading the state *)

Last == log[Len(log)]
LineChunks(n) == SelectSeq(stdout, LAMBDA c : c.ln = n)
IsNewline(c) == c.role = "plain" /\ c.text = <<"\n">>
Newlines(cs) == Len(SelectSeq(cs, IsNewline))

Untag(cs) == [j \in 1..Len(cs) |-> Chunk(cs[j].role, cs[j].text)]

RECURSIVE TextOf(_)
TextOf(cs) == IF cs = <<>> THEN <<>> ELSE Head(cs).text \o TextOf(Tail(cs))

\* The header of a written line: its first six chunks.
HeaderLen == 6
Written(n) == Len(LineChunks(n)) >= HeaderLen
PathOf(n) == LineChunks(n)[1]
RowOf(n) == LineChunks(n)[3]
ColumnOf(n) == LineChunks(n)[5]
BodyOf(n) == SubSeq(LineChunks(n), HeaderLen + 1, Len(LineChunks(n)))

IsRecognised(n) == log[n].kind = "recognised"
NoConfig == args.prefix = None /\ args.highlight = None /\ ~args.check_exists

-----------------------------------------------------------------------------
(* C1 *)

\* C1: when the check_exists flag is given, check_exists is true for the run
\* and a recognised line whose resolved relative path cannot be opened
\* produces no output at all, and the run goes on.
C1_ExistenceFilter ==
  \A n \in 1..Len(log) :
    (/\ args.check_exists
     /\ IsRecognised(n)
     /\ IsSome(log[n].rel)
     /\ open_is_err(log[n].rel[1], files))
    => (check_exists /\ LineChunks(n) = <<>> /\ pc # "panicked")

-----------------------------------------------------------------------------
(* C2 *)

GrepForm(path, row, col, msg) ==
  path \o <<":">> \o row \o <<":">> \o col \o <<":", " ">> \o msg

C2Paths == {<<"s", "r", "c", "/", "l", "i", "b", ".", "r", "s">>, <<"a">>}
C2Numbers == {<<"4", "2">>, <<"7">>, <<"0">>}
C2Messages == {<<"u", "n", "u", "s", "e", "d", " ", "v", "a", "r", "i", "a", "b", "l", "e">>, <<"a">>}

\* C2: with nothing configured, a line <path>:<row>:<col>: <message> with a
\* relative colon-free path is written as the path relative to the working
\* directory (path or ./path), row <row>, column <col>, and the message
\* unchanged.
C2_GrepLine ==
  \A n \in 1..Len(log) :
    \A path \in C2Paths, row \in C2Numbers, col \in C2Numbers, msg \in C2Messages :
      (NoConfig /\ log[n].item = Ok(GrepForm(path, row, col, msg)))
      => /\ Written(n)
         /\ PathOf(n).text \in {path, <<".", "/">> \o path}
         /\ RowOf(n).text = row
         /\ ColumnOf(n).text = col
         /\ TextOf(BodyOf(n)) = msg \o <<"\n">>

-----------------------------------------------------------------------------
(* C3 *)

\* C3: a line that was read either matches the grammar from its first
\* character to its last and yields one record, or is echoed verbatim; no
\* record is built from a part of the line with the text in front dropped.
C3_WholeLine ==
  \A n \in 1..Len(log) :
    log[n].item.ok =>
      \/ /\ IsRecognised(n)
         /\ log[n].m[1].from = 1
         /\ log[n].m[1].to = Len(log[n].item.v) + 1
      \/ /\ log[n].kind = "passthrough"
         /\ log[n].res = "Ok" => TextOf(LineChunks(n)) = log[n].item.v \o <<"\n">>

-----------------------------------------------------------------------------
(* C4 *)

StartupFailure == log = <<>>
PathResolutionFailure == log # <<>> /\ Last.kind = "recognised" /\ Last.rel = None

\* C4: no per-line issue halts the run; the process stops early only on a
\* startup configuration error or a path-resolution failure.
C4_NoPerLineHalt ==
  pc = "panicked" => (StartupFailure \/ PathResolutionFailure)

-----------------------------------------------------------------------------
(* C5 *)

InInputOrder ==
  /\ \A i, j \in 1..Len(stdout) : i < j => stdout[i].ln <= stdout[j].ln
  /\ \A i \in 1..Len(stdout) : stdout[i].ln \in 1..Len(log)

\* The chunks of line n are one complete output line.
OneLine(n) ==
  /\ LineChunks(n) # <<>>
  /\ Newlines(LineChunks(n)) = 1
  /\ IsNewline(LineChunks(n)[Len(LineChunks(n))])

-----------------------------------------------------------------------------
(* C6 *)

Spans(n) == SubSeq(BodyOf(n), 1, Len(BodyOf(n)) - 1)
OffsetOf(n, j) == 1 + Len(TextOf(SubSeq(Spans(n), 1, j - 1)))
Red(c) == c.role = "red"

\* C6: with a highlight pattern configured, the spans written for a line
\* (unmatched plain, matched red), concatenated in order, are the contents
\* exactly; every red span is the pattern's match at its offset, so the
\* matched spans go left to right without overlap; and with zero matches the
\* body is the one written without a pattern.
C6_HighlightPartition ==
  \A n \in 1..Len(log) :
    (IsRecognised(n) /\ IsSome(highlight_regex) /\ log[n].res = "Ok" /\ ~log[n].suppressed)
    => /\ Written(n)
       /\ BodyOf(n) # <<>>
       /\ IsNewline(BodyOf(n)[Len(BodyOf(n))])
       /\ TextOf(Spans(n)) = log[n].s.contents
       /\ \A j \in 1..Len(Spans(n)) :
            Red(Spans(n)[j]) =>
              Run(<<highlight_regex[1]>>, log[n].s.contents, OffsetOf(n, j), NoCaps)
                = Some([pos |-> OffsetOf(n, j) + Len(Spans(n)[j].text), caps |-> NoCaps])
       /\ (\A j \in 1..Len(Spans(n)) : ~Red(Spans(n)[j]))
            => Untag(BodyOf(n)) = << Chunk("plain", log[n].s.contents),
                                     Chunk("plain", <<"\n">>) >>

\* A line with an empty match, a match of two characters and unmatched text.
C6_Witness ==
  /\ log # <<>> /\ IsRecognised(1) /\ IsSome(highlight_regex) /\ log[1].res = "Ok"
  /\ \E i, j, k \in 1..Len(Spans(1)) :
       /\ Red(Spans(1)[i]) /\ Spans(1)[i].text = <<>>
       /\ Red(Spans(1)[j]) /\ Len(Spans(1)[j].text) = 2
       /\ ~Red(Spans(1)[k]) /\ Spans(1)[k].text # <<>>

-----------------------------------------------------------------------------
(* C7 *)

\* C7: the concatenated path is extra_prefix + prefix + "/" + filepath when
\* both are present, prefix + "/" + filepath with only prefix, extra_prefix +
\* filepath with only extra_prefix, and filepath with neither;
\* prefix = sub, extra_prefix = root/, filepath = a.txt give root/sub/a.txt.
C7_ConcatenationTable ==
  \A n \in 1..Len(log) :
    IsRecognised(n) =>
      LET p == log[n].s.prefix
          f == log[n].s.filepath
          x == extra_prefix
      IN /\ (p # None /\ x # None) => log[n].filepath = x[1] \o p[1] \o <<"/">> \o f
         /\ (p # None /\ x = None) => log[n].filepath = p[1] \o <<"/">> \o f
         /\ (p = None /\ x # None) => log[n].filepath = x[1] \o f
         /\ (p = None /\ x = None) => log[n].filepath = f
         /\ (p = Some(<<"s", "u", "b">>) /\ x = Some(PrefixRoot) /\ f = <<"a", ".", "t", "x", "t">>)
              => log[n].filepath = <<"r", "o", "o", "t", "/", "s", "u", "b", "/", "a", ".", "t", "x", "t">>

C7_Witness ==
  /\ log # <<>> /\ IsRecognised(1)
  /\ log[1].s.prefix = Some(<<"s", "u", "b">>)
  /\ extra_prefix = Some(PrefixRoot)
  /\ log[1].s.filepath = <<"a", ".", "t", "x", "t">>
  /\ log[1].filepath = <<"r", "o", "o", "t", "/", "s", "u", "b", "/", "a", ".", "t", "x", "t">>

-----------------------------------------------------------------------------
(* C8 *)

CapturedText(n, g) ==
  SubSeq(log[n].item.v, log[n].m[1].caps[g][1][1], log[n].m[1].caps[g][1][2] - 1)

NumberField(n, g, chunk) ==
  IF log[n].m[1].caps[g] = None
  THEN chunk.text = <<"0">>
  ELSE /\ chunk.text = CapturedText(n, g)
       /\ chunk.text # <<>>
       /\ \A j \in 1..Len(chunk.text) : chunk.text[j] \in Digits

\* C8: in the output of a matching line the row and the column are "0" when
\* the field is absent from the record, and otherwise the captured non-empty
\* digit text as it stands in the input (leading zeros kept).
C8_RowColumn ==
  \A n \in 1..Len(log) :
    (IsRecognised(n) /\ Written(n))
    => /\ (log[n].s.row = None) = (log[n].m[1].caps[3] = None)
       /\ (log[n].s.column = None) = (log[n].m[1].caps[4] = None)
       /\ RowOf(n).role = "blue" /\ NumberField(n, 3, RowOf(n))
       /\ ColumnOf(n).role = "green" /\ NumberField(n, 4, ColumnOf(n))

\* Row 07 written as 07, the absent column written as 0.
C8_Witness ==
  /\ log # <<>> /\ IsRecognised(1) /\ Written(1)
  /\ log[1].s.row = Some(<<"0", "7">>) /\ RowOf(1).text = <<"0", "7">>
  /\ log[1].s.column = None /\ ColumnOf(1).text = <<"0">>

-----------------------------------------------------------------------------
(* C9 *)

\* Somewhere in the line, one or more non-colon characters and then a colon.
MinimalGrammar(line) ==
  \E j \in 2..Len(line) : line[j] = ":" /\ line[j - 1] # ":"

HeaderText(n) ==
  log[n].rel[1] \o <<":">> \o UnwrapOr(log[n].s.row, <<"0">>) \o <<":">>
    \o UnwrapOr(log[n].s.column, <<"0">>) \o <<":", " ">>

-----------------------------------------------------------------------------
(* C10 *)

RECURSIVE Resolve(_, _)
Resolve(cs, acc) ==
  IF cs = <<>> THEN acc
  ELSE IF Head(cs) = ParentDir /\ Len(acc) > 1
       THEN Resolve(Tail(cs), SubSeq(acc, 1, Len(acc) - 1))
       ELSE IF Head(cs) = ParentDir THEN Resolve(Tail(cs), acc)
            ELSE Resolve(Tail(cs), Append(acc, Head(cs)))

\* rel names, from the directory base, the place that path names.
RelativeTo(rel, path, base) ==
  /\ ~is_absolute(rel)
  /\ Resolve(components(base) \o components(rel), <<>>) = Resolve(components(path), <<>>)

\* C10: when no path relative to current_dir can be computed for a recognised
\* line, the process aborts at that line: nothing is written for it and no
\* later line is processed; where the computation succeeds, the path written
\* is the concatenated path expressed relative to current_dir.
C10_PathResolution ==
  \A n \in 1..Len(log) :
    IsRecognised(n) =>
      IF diff_paths(log[n].filepath, cwd) = None
      THEN pc = "panicked" /\ n = Len(log) /\ LineChunks(n) = <<>>
      ELSE /\ log[n].rel # None
           /\ RelativeTo(log[n].rel[1], log[n].filepath, cwd)
           /\ LineChunks(n) # <<>>
                => PathOf(n).role = "yellow" /\ PathOf(n).text = log[n].rel[1]

\* The process stopped at the first line with a line still unread.
C10_Witness ==
  /\ pc = "panicked" /\ Len(log) = 1 /\ IsRecognised(1)
  /\ log[1].rel = None /\ stdout = <<>> /\ stdin # <<>>

====
